---- MODULE Spec2Model ----
(***************************************************************************)
(* Tic-Tac-Toe with a minimax opponent (cugek21/Tic_Tac_Toe).              *)
(*                                                                         *)
(* The module models                                                       *)
(*   - src/src/game_functions.py : create_board, check_winner,             *)
(*     get_player_move, get_computer_move;                                 *)
(*   - src/src/tictactoe_adapter.py : the TicTacToeAdapter methods;        *)
(*   - src/src/minimax_lib.py : minimax, with its four callbacks passed as *)
(*     values;                                                             *)
(*   - src/main.py : play_game's difficulty menu, singleplayer and         *)
(*     multiplayer.                                                        *)
(*                                                                         *)
(* A board is the Python list: a function on 0..size*size-1 whose cells    *)
(* are the strings "X", "O" or the cell's label str(i+1).                  *)
(*                                                                         *)
(* Specifications:                                                         *)
(*   Spec         main.singleplayer as play_game calls it (human first)    *)
(*   SpecPerfect  the single-player loop with depth size*size, in both     *)
(*                move orders                                              *)
(*   SpecMulti    main.multiplayer                                         *)
(*   SpecAdapter  single calls of the adapter's methods and of minimax on  *)
(*                every 3x3 board                                          *)
(*   SpecEngine   single calls of minimax with callbacks of a small        *)
(*                abstract game                                            *)
(*   SpecLines    generate_lines on every adapter the menu can build       *)
(***************************************************************************)
EXTENDS Integers, Sequences, FiniteSets, TLC

VARIABLES
    pc,              \* "single" | "multi" | "done" | "call" | "returned"
    difficulty,      \* play_game: the menu's answer, 1..4 (0: not asked)
    size,            \* the board's width
    depth,           \* singleplayer: the local variable depth
    board,           \* the list object `board`
    turn,            \* the loop variable of the game loop
    first,           \* 0: the human moves on even turns (the code), 1: on odd
    current_player,  \* multiplayer: the mark to move
    chooser,         \* the function that chose the computer's last move
    result,          \* "playing" | "human" | "computer" | "draw" | "X" | "O"
    call,            \* the call under test: its function and arguments
    ret              \* the value the call under test returned

vars == <<pc, difficulty, size, depth, board, turn, first, current_player,
          chooser, result, call, ret>>

-----------------------------------------------------------------------------
(* Values of the program *)

\* Python's None as a move: moves are board indices, all >= 0.
None == -1

\* float("-inf") and float("inf"): below and above every score evaluate returns.
NegInf == -1000000

PosInf == 1000000

TO_WIN == 3

MinSize == 3

MaxSize == 9

\* The specifications that play games or enumerate boards use the smallest
\* board of the menu.
BoardSize == MinSize

\* The highest depth of the single calls of minimax and best_move.
MaxDepth == 1

Difficulties == 1..4

-----------------------------------------------------------------------------
(* src/src/game_functions.py *)

create_board(n) == [i \in 0..(n * n - 1) |-> ToString(i + 1)]

check_winner(b, player, n, to_win) ==
    \/ \E r \in 0..(n - 1) : \E c \in 0..(n - to_win) :
          \A k \in 0..(to_win - 1) : b[r * n + c + k] = player
    \/ \E c \in 0..(n - 1) : \E r \in 0..(n - to_win) :
          \A k \in 0..(to_win - 1) : b[(r + k) * n + c] = player
    \/ \E r \in 0..(n - to_win) : \E c \in 0..(n - to_win) :
          \A k \in 0..(to_win - 1) : b[(r + k) * n + (c + k)] = player
    \/ \E r \in 0..(n - to_win) : \E c \in (to_win - 1)..(n - 1) :
          \A k \in 0..(to_win - 1) : b[(r + k) * n + (c - k)] = player

\* The indices get_player_move can return: the prompt repeats until the
\* number is in 1..size*size and the cell holds neither 'X' nor 'O'.
get_player_move(b, player, n) ==
    {idx \in 0..(n * n - 1) : b[idx] \notin {"X", "O"}}

\* The indices random.choice(free_spots) can return.
get_computer_move(b) ==
    {i \in DOMAIN b : b[i] \notin {"X", "O"}}

-----------------------------------------------------------------------------
(* src/src/tictactoe_adapter.py *)

TicTacToeAdapter(n, to_win, human, computer) ==
    [size |-> n, to_win |-> to_win, human |-> human, computer |-> computer]

\* The list comprehension over enumerate(state).
get_moves(self, state, maximizing) ==
    LET unmarked(i) == state[i] \notin {self.human, self.computer}
    IN  SelectSeq([k \in 1..Cardinality(DOMAIN state) |-> k - 1], unmarked)

\* apply_move writing into its argument instead of a copy of it.
apply_move_in_place(self, state, move, maximizing) ==
    [new_state |-> [state EXCEPT ![move] =
                        IF maximizing THEN self.computer ELSE self.human],
     state |-> [state EXCEPT ![move] =
                        IF maximizing THEN self.computer ELSE self.human]]

\* new_state is the list returned; state is the argument list after the call
\* (state.copy() leaves it as it was).
apply_move(self, state, move, maximizing) ==
    [new_state |-> [state EXCEPT ![move] =
                        IF maximizing THEN self.computer ELSE self.human],
     state |-> state]

\* generate_lines with the anti-diagonals' columns starting at K instead of
\* K - 1.
generate_lines_late_start(self) ==
    LET N == self.size
        K == self.to_win
        W == N - K + 1
    IN  [j \in 1..(N * W) |-> [i \in 1..K |->
            ((j - 1) \div W) * N + ((j - 1) % W) + (i - 1)]]
        \o
        [j \in 1..(N * W) |-> [i \in 1..K |->
            (((j - 1) % W) + (i - 1)) * N + ((j - 1) \div W)]]
        \o
        [j \in 1..(W * W) |-> [i \in 1..K |->
            (((j - 1) \div W) + (i - 1)) * N + (((j - 1) % W) + (i - 1))]]
        \o
        [j \in 1..(W * (W - 1)) |-> [i \in 1..K |->
            (((j - 1) \div (W - 1)) + (i - 1)) * N
                + ((K + ((j - 1) % (W - 1))) - (i - 1))]]

generate_lines(self) ==
    LET N == self.size
        K == self.to_win
        W == N - K + 1
    IN  [j \in 1..(N * W) |-> [i \in 1..K |->
            ((j - 1) \div W) * N + ((j - 1) % W) + (i - 1)]]
        \o
        [j \in 1..(N * W) |-> [i \in 1..K |->
            (((j - 1) % W) + (i - 1)) * N + ((j - 1) \div W)]]
        \o
        [j \in 1..(W * W) |-> [i \in 1..K |->
            (((j - 1) \div W) + (i - 1)) * N + (((j - 1) % W) + (i - 1))]]
        \o
        [j \in 1..(W * W) |-> [i \in 1..K |->
            (((j - 1) \div W) + (i - 1)) * N
                + (((K - 1) + ((j - 1) % W)) - (i - 1))]]

\* LineScore with the two signs exchanged.
LineScore_signs_exchanged(self, state, line) ==
    LET ai_count == Cardinality({i \in 1..Len(line) : state[line[i]] = self.computer})
        human_count == Cardinality({i \in 1..Len(line) : state[line[i]] = self.human})
    IN  IF human_count = 0 /\ ai_count > 0 THEN 0 - ai_count
        ELSE IF ai_count = 0 /\ human_count > 0 THEN human_count
        ELSE 0

\* What one line adds to the score (the body of evaluate's loop).
LineScore(self, state, line) ==
    LET ai_count == Cardinality({i \in 1..Len(line) : state[line[i]] = self.computer})
        human_count == Cardinality({i \in 1..Len(line) : state[line[i]] = self.human})
    IN  IF human_count = 0 /\ ai_count > 0 THEN ai_count
        ELSE IF ai_count = 0 /\ human_count > 0 THEN 0 - human_count
        ELSE 0

RECURSIVE SumLines(_, _, _, _, _)
\* evaluate's loop over the lines, for lines j..k: what they add to score.
SumLines(self, state, lines, j, k) ==
    IF j > k THEN 0
    ELSE IF j = k THEN LineScore(self, state, lines[j])
    ELSE SumLines(self, state, lines, j, (j + k) \div 2)
            + SumLines(self, state, lines, (j + k) \div 2 + 1, k)

\* score after evaluate's loop (lines 89-98).
ScoreLines(self, state, lines) ==
    SumLines(self, state, lines, 1, Len(lines))

\* evaluate without the test for the human's win.
evaluate_no_loss(self, state) ==
    IF check_winner(state, self.computer, self.size, self.to_win) THEN 100
    ELSE ScoreLines(self, state, generate_lines(self))

evaluate(self, state) ==
    IF check_winner(state, self.computer, self.size, self.to_win) THEN 100
    ELSE IF check_winner(state, self.human, self.size, self.to_win) THEN -100
    ELSE ScoreLines(self, state, generate_lines(self))

\* is_terminal with any() for all(): a board with one mark counts as full.
is_terminal_any(self, state) ==
    \/ check_winner(state, self.human, self.size, self.to_win)
    \/ check_winner(state, self.computer, self.size, self.to_win)
    \/ \E i \in DOMAIN state : state[i] \in {self.human, self.computer}

\* is_terminal without the test for the full board.
is_terminal_no_draw(self, state) ==
    \/ check_winner(state, self.human, self.size, self.to_win)
    \/ check_winner(state, self.computer, self.size, self.to_win)

is_terminal(self, state) ==
    \/ check_winner(state, self.human, self.size, self.to_win)
    \/ check_winner(state, self.computer, self.size, self.to_win)
    \/ \A i \in DOMAIN state : state[i] \in {self.human, self.computer}

\* The boards an adapter's methods are given.
AdapterStates(self) ==
    [0..(self.size * self.size - 1) ->
        {self.human, self.computer} \cup {ToString(i) : i \in 1..(self.size * self.size)}]

\* The four bound methods best_move hands to minimax.
BoundMethods(self) ==
    LET S == AdapterStates(self)
    IN  [get_moves   |-> [a \in S \X BOOLEAN |-> get_moves(self, a[1], a[2])],
         apply_move  |-> [a \in S \X (0..(self.size * self.size - 1)) \X BOOLEAN |->
                            apply_move(self, a[1], a[2], a[3])],
         evaluate    |-> [s \in S |-> evaluate(self, s)],
         is_terminal |-> [s \in S |-> is_terminal(self, s)]]

-----------------------------------------------------------------------------
(* src/src/minimax_lib.py *)

\* Better with >= and <= for > and <: a later move of equal score replaces
\* the best.
Better_or_equal(maximizing_player, score, best_score) ==
    IF maximizing_player THEN score >= best_score ELSE score <= best_score

\* The comparisons of lines 53 and 68.
Better(maximizing_player, score, best_score) ==
    IF maximizing_player THEN score > best_score ELSE score < best_score

RECURSIVE SearchMoves(_, _, _, _, _, _, _)
\* The two for loops of minimax (lines 46-55 and 61-70), from the i-th move
\* on.  subs[i] is what the recursive call of line 48 (63) returned for
\* moves[i]; calls counts the calls of minimax made below this node.
SearchMoves(maximizing_player, moves, subs, i, best_score, best_move_, calls) ==
    IF i > Len(moves)
    THEN [score |-> best_score, move |-> best_move_, calls |-> calls]
    ELSE IF Better(maximizing_player, subs[i].score, best_score)
         THEN SearchMoves(maximizing_player, moves, subs, i + 1,
                          subs[i].score, moves[i], calls + 1 + subs[i].calls)
         ELSE SearchMoves(maximizing_player, moves, subs, i + 1,
                          best_score, best_move_, calls + 1 + subs[i].calls)

\* The initial best_score of lines 44 and 59.
WorstScore(maximizing_player) ==
    IF maximizing_player THEN NegInf ELSE PosInf

\* minimax.  call_[a] is the call minimax(a[1], a[2], a[3], get_moves,
\* apply_move, evaluate, is_terminal), the callbacks being those of cb.  The
\* loop never assigns to state, and reads it in line 47 (62) only: each child
\* is apply_move's return value for the node's state.
minimax(state, d, maximizing_player, cb) ==
    LET call_[a \in (DOMAIN cb.evaluate) \X (0..d) \X BOOLEAN] ==
            IF a[2] = 0 \/ cb.is_terminal[a[1]]
            THEN [score |-> cb.evaluate[a[1]], move |-> None, calls |-> 0]
            ELSE LET moves == cb.get_moves[<<a[1], a[3]>>]
                 IN  CHOOSE r \in
                        {SearchMoves(a[3], moves, subs, 1, WorstScore(a[3]), None, 0) :
                            subs \in {[i \in 1..Len(moves) |->
                                call_[<<cb.apply_move[<<a[1], moves[i], a[3]>>].new_state,
                                        a[2] - 1, ~a[3]>>]]}} : TRUE
    IN  call_[<<state, d, maximizing_player>>]

\* best_move answering with the first cell, marked or not.
best_move_first_cell(self, b, d) ==
    0

best_move(self, b, d) ==
    minimax(b, d, TRUE, BoundMethods(self)).move

-----------------------------------------------------------------------------
(* src/main.py *)

\* play_game: the depth it passes to singleplayer.
MenuDepth(diff, n) ==
    IF diff = 1 THEN 0
    ELSE IF diff = 2 THEN ((n * n) * 4) \div 10
    ELSE IF diff = 3 THEN ((n * n) * 8) \div 10
    ELSE n * n

\* singleplayer: the value of depth after lines 52-59.
SearchDepth(n, depth_arg) ==
    IF n <= 3 THEN n * n
    ELSE IF n <= 5 THEN 4
    ELSE IF n <= 7 THEN 3
    ELSE 2

\* The adapter singleplayer builds.
Ai == TicTacToeAdapter(size, TO_WIN, "X", "O")

NoCall == [fn |-> "none"]

\* play_game has asked for the difficulty and called singleplayer, which has
\* run up to its loop.
Init ==
    /\ pc = "single"
    /\ difficulty \in Difficulties
    /\ size = BoardSize
    /\ depth = SearchDepth(size, MenuDepth(difficulty, size))
    /\ board = create_board(size)
    /\ turn = 0
    /\ first = 0
    /\ current_player = "X"
    /\ chooser = "none"
    /\ result = "playing"
    /\ call = NoCall
    /\ ret = <<>>

\* One turn's end: the win check after the write, and the loop's end.
EndTurn(b, mark, winner) ==
    IF check_winner(b, mark, size, TO_WIN)
    THEN /\ pc' = "done"
         /\ result' = winner
         /\ turn' = turn
    ELSE /\ turn' = turn + 1
         /\ pc' = IF turn + 1 = size * size THEN "done" ELSE pc
         /\ result' = IF turn + 1 = size * size THEN "draw" ELSE result

\* singleplayer, lines 64-70.
HumanMove(idx) ==
    /\ pc = "single"
    /\ (turn + first) % 2 = 0
    /\ idx \in get_player_move(board, "X", size)
    /\ board' = [board EXCEPT ![idx] = "X"]
    /\ EndTurn(board', "X", "human")
    /\ UNCHANGED <<difficulty, size, depth, first, current_player, chooser, call, ret>>

\* singleplayer, lines 72-78: the indices idx can hold, and who chose them.
ComputerChoice ==
    IF depth = 0
    THEN [by |-> "get_computer_move", idx |-> get_computer_move(board)]
    ELSE CHOOSE c \in {IF m = None
                        THEN [by |-> "get_computer_move", idx |-> get_computer_move(board)]
                        ELSE [by |-> "best_move", idx |-> {m}]
                            : m \in {best_move(Ai, board, depth)}} : TRUE

\* singleplayer, lines 71-84.
ComputerMove ==
    /\ pc = "single"
    /\ (turn + first) % 2 = 1
    /\ \E choice \in {ComputerChoice} :
          /\ chooser' = choice.by
          /\ \E idx \in choice.idx :
                /\ board' = [board EXCEPT ![idx] = Ai.computer]
                /\ EndTurn(board', "O", "computer")
    /\ UNCHANGED <<difficulty, size, depth, first, current_player, call, ret>>

Next ==
    \/ \E idx \in 0..(BoardSize * BoardSize - 1) : HumanMove(idx)
    \/ ComputerMove

Spec == Init /\ [][Next]_vars

\* The single-player loop when depth is size*size, in both move orders.
InitPerfect ==
    /\ pc = "single"
    /\ difficulty = 4
    /\ size = BoardSize
    /\ depth = size * size
    /\ board = create_board(size)
    /\ turn = 0
    /\ first \in {0, 1}
    /\ current_player = "X"
    /\ chooser = "none"
    /\ result = "playing"
    /\ call = NoCall
    /\ ret = <<>>

SpecPerfect == InitPerfect /\ [][Next]_vars

\* multiplayer has run up to its loop.
InitMulti ==
    /\ pc = "multi"
    /\ difficulty = 0
    /\ size = BoardSize
    /\ depth = 0
    /\ board = create_board(size)
    /\ turn = 0
    /\ first = 0
    /\ current_player = "X"
    /\ chooser = "none"
    /\ result = "playing"
    /\ call = NoCall
    /\ ret = <<>>

\* multiplayer, lines 99-107.
PlayerMove(idx) ==
    /\ pc = "multi"
    /\ idx \in get_player_move(board, current_player, size)
    /\ board' = [board EXCEPT ![idx] = current_player]
    /\ EndTurn(board', current_player, current_player)
    /\ current_player' = IF check_winner(board', current_player, size, TO_WIN)
                         THEN current_player
                         ELSE IF current_player = "X" THEN "O" ELSE "X"
    /\ UNCHANGED <<difficulty, size, depth, first, chooser, call, ret>>

NextMulti == \E idx \in 0..(BoardSize * BoardSize - 1) : PlayerMove(idx)

SpecMulti == InitMulti /\ [][NextMulti]_vars

-----------------------------------------------------------------------------
(* Single calls of the adapter's methods and of minimax *)

\* Every board of width n: each cell holds a mark or its own label.
AllBoards(n) ==
    {[i \in 0..(n * n - 1) |-> IF m[i] = "" THEN ToString(i + 1) ELSE m[i]] :
        m \in [0..(n * n - 1) -> {"X", "O", ""}]}

\* The caller holds a board and an adapter for it, and has called nothing yet.
InitAdapter ==
    /\ pc = "call"
    /\ difficulty = 0
    /\ size = BoardSize
    /\ depth = 0
    /\ board \in AllBoards(BoardSize)
    /\ turn = 0
    /\ first = 0
    /\ current_player = "X"
    /\ chooser = "none"
    /\ result = "playing"
    /\ call = NoCall
    /\ ret = <<>>

\* The record of a call: the function, and the arguments as they were passed.
Called(fn, state, move, d, maximizing) ==
    [fn |-> fn, state |-> state, move |-> move, depth |-> d, maximizing |-> maximizing]

CallGetMoves(maximizing) ==
    /\ pc = "call"
    /\ call' = Called("get_moves", board, None, 0, maximizing)
    /\ ret' = get_moves(Ai, board, maximizing)
    /\ pc' = "returned"
    /\ UNCHANGED <<difficulty, size, depth, board, turn, first, current_player, chooser, result>>

\* apply_move on a move of get_moves; board is the argument list afterwards.
CallApplyMove(move, maximizing) ==
    /\ pc = "call"
    /\ \E j \in 1..Len(get_moves(Ai, board, maximizing)) :
          move = get_moves(Ai, board, maximizing)[j]
    /\ call' = Called("apply_move", board, move, 0, maximizing)
    /\ \E applied \in {apply_move(Ai, board, move, maximizing)} :
          /\ ret' = applied.new_state
          /\ board' = applied.state
    /\ pc' = "returned"
    /\ UNCHANGED <<difficulty, size, depth, turn, first, current_player, chooser, result>>

CallEvaluate ==
    /\ pc = "call"
    /\ call' = Called("evaluate", board, None, 0, FALSE)
    /\ ret' = evaluate(Ai, board)
    /\ pc' = "returned"
    /\ UNCHANGED <<difficulty, size, depth, board, turn, first, current_player, chooser, result>>

CallIsTerminal ==
    /\ pc = "call"
    /\ call' = Called("is_terminal", board, None, 0, FALSE)
    /\ ret' = is_terminal(Ai, board)
    /\ pc' = "returned"
    /\ UNCHANGED <<difficulty, size, depth, board, turn, first, current_player, chooser, result>>

CallBestMove(d) ==
    /\ pc = "call"
    /\ call' = Called("best_move", board, None, d, TRUE)
    /\ ret' = best_move(Ai, board, d)
    /\ pc' = "returned"
    /\ UNCHANGED <<difficulty, size, depth, board, turn, first, current_player, chooser, result>>

CallMinimax(d, maximizing) ==
    /\ pc = "call"
    /\ call' = Called("minimax", board, None, d, maximizing)
    /\ ret' = minimax(board, d, maximizing, BoundMethods(Ai))
    /\ pc' = "returned"
    /\ UNCHANGED <<difficulty, size, depth, board, turn, first, current_player, chooser, result>>

NextAdapter ==
    \/ \E maximizing \in BOOLEAN : CallGetMoves(maximizing)
    \/ \E move \in 0..(BoardSize * BoardSize - 1), maximizing \in BOOLEAN :
          CallApplyMove(move, maximizing)
    \/ CallEvaluate
    \/ CallIsTerminal
    \/ \E d \in 0..MaxDepth : CallBestMove(d)
    \/ \E d \in 0..MaxDepth, maximizing \in BOOLEAN : CallMinimax(d, maximizing)

SpecAdapter == InitAdapter /\ [][NextAdapter]_vars

-----------------------------------------------------------------------------
(* Single calls of minimax with the callbacks of a small abstract game *)

MaxToyState == 1

MaxToyMove == 1

MaxToyScore == 1

MaxToyDepth == 2

ToyStates == 0..MaxToyState

ToyMoves == 0..MaxToyMove

\* The move lists a get_moves callback may return: the ascending lists.
ToyMoveLists ==
    {<<>>} \cup {<<m>> : m \in ToyMoves}
           \cup {p \in ToyMoves \X ToyMoves : p[1] < p[2]}

\* Four callbacks, given as tables: the moves of each state, the state each
\* move leads to, each state's score and whether it is terminal.
ToyCallbacks(moves_of, next, score, terminal) ==
    [get_moves   |-> [a \in ToyStates \X BOOLEAN |-> moves_of[a[1]]],
     apply_move  |-> [a \in ToyStates \X ToyMoves \X BOOLEAN |->
                        [new_state |-> next[<<a[1], a[2]>>], state |-> a[1]]],
     evaluate    |-> score,
     is_terminal |-> terminal]

ToyGames ==
    {ToyCallbacks(moves_of, next, score, terminal) :
        moves_of \in [ToyStates -> ToyMoveLists],
        next \in [ToyStates \X ToyMoves -> ToyStates],
        score \in [ToyStates -> (0 - MaxToyScore)..MaxToyScore],
        terminal \in [ToyStates -> BOOLEAN]}

\* The caller holds four callbacks and has called nothing yet.
InitEngine ==
    /\ pc = "call"
    /\ difficulty = 0
    /\ size = 0
    /\ depth = 0
    /\ board = <<>>
    /\ turn = 0
    /\ first = 0
    /\ current_player = "X"
    /\ chooser = "none"
    /\ result = "playing"
    /\ call \in {[fn |-> "none", cb |-> g] : g \in ToyGames}
    /\ ret = <<>>

CallEngine(state, d, maximizing) ==
    /\ pc = "call"
    /\ call' = [fn |-> "minimax", cb |-> call.cb, state |-> state, depth |-> d,
                maximizing |-> maximizing]
    /\ ret' = minimax(state, d, maximizing, call.cb)
    /\ pc' = "returned"
    /\ UNCHANGED <<difficulty, size, depth, board, turn, first, current_player, chooser, result>>

NextEngine ==
    \E state \in ToyStates, d \in 0..MaxToyDepth, maximizing \in BOOLEAN :
        CallEngine(state, d, maximizing)

SpecEngine == InitEngine /\ [][NextEngine]_vars

-----------------------------------------------------------------------------
(* generate_lines on every adapter the menu's sizes allow *)

\* The adapters: every size of the menu, every run length up to the size,
\* the two marks either way round.
Adapters ==
    {TicTacToeAdapter(n, k, human, computer) :
        n \in MinSize..MaxSize, k \in 1..MaxSize,
        human \in {"X", "O"}, computer \in {"X", "O"}}

InitLines ==
    /\ pc = "call"
    /\ difficulty = 0
    /\ size \in MinSize..MaxSize
    /\ depth = 0
    /\ board = create_board(size)
    /\ turn = 0
    /\ first = 0
    /\ current_player = "X"
    /\ chooser = "none"
    /\ result = "playing"
    /\ call \in {[fn |-> "none", self |-> a] :
                    a \in {x \in Adapters : /\ x.size = size
                                            /\ x.to_win <= x.size
                                            /\ x.human # x.computer}}
    /\ ret = <<>>

CallGenerateLines ==
    /\ pc = "call"
    /\ call' = [fn |-> "generate_lines", self |-> call.self]
    /\ ret' = generate_lines(call.self)
    /\ pc' = "returned"
    /\ UNCHANGED <<difficulty, size, depth, board, turn, first, current_player, chooser, result>>

NextLines == CallGenerateLines

SpecLines == InitLines /\ [][NextLines]_vars

-----------------------------------------------------------------------------
(* Properties *)

\* The cells of b that hold neither mark of the adapter.
Unoccupied(self, b) ==
    {i \in DOMAIN b : b[i] # self.human /\ b[i] # self.computer}

\* The number of cells of b that hold mark.
Marks(b, mark) == Cardinality({i \in DOMAIN b : b[i] = mark})

\* C1: on the 3x3 board with to_win = 3, when every computer move is
\* best_move(board, 9) and the human plays any legal moves, in either move
\* order, the human's mark never completes a line: every finished game is a
\* draw or a win of the computer.
C1_PerfectPlayNeverLoses ==
    /\ ~check_winner(board, "X", BoardSize, TO_WIN)
    /\ result # "human"
    /\ pc = "done" => result \in {"draw", "computer"}

\* C1's case: a game the human began, played to its end against best_move.
C1_Witness ==
    /\ pc = "done"
    /\ first = 0
    /\ depth = BoardSize * BoardSize
    /\ chooser = "best_move"
    /\ result = "computer"

\* C2: when depth is 0, or no cell is unoccupied, or is_terminal holds,
\* minimax returns exactly (evaluate(board), None) and calls itself on no
\* child, whichever side is maximizing.
C2_BaseCase ==
    (/\ pc = "returned"
     /\ call.fn = "minimax"
     /\ \/ call.depth = 0
        \/ Unoccupied(Ai, call.state) = {}
        \/ check_winner(call.state, "X", BoardSize, TO_WIN)
        \/ check_winner(call.state, "O", BoardSize, TO_WIN))
    => /\ ret.score = evaluate(Ai, call.state)
       /\ ret.move = None
       /\ ret.calls = 0

\* C2's case: minimax called with depth >= 1 on a full board nobody has won.
C2_Witness ==
    /\ pc = "returned"
    /\ call.fn = "minimax"
    /\ call.depth >= 1
    /\ ~call.maximizing
    /\ Unoccupied(Ai, call.state) = {}
    /\ ~check_winner(call.state, "X", BoardSize, TO_WIN)
    /\ ~check_winner(call.state, "O", BoardSize, TO_WIN)
    /\ ret.move = None

\* The score minimax gives each unoccupied cell of b, as pairs <<move, score>>.
ScoredMoves(b, d, maximizing) ==
    {<<m, minimax(apply_move(Ai, b, m, maximizing).new_state, d - 1, ~maximizing,
                  BoundMethods(Ai)).score>> : m \in Unoccupied(Ai, b)}

\* The best score of a set of pairs <<move, score>> for the side to move.
BestOf(scored, maximizing) ==
    CHOOSE s \in {p[2] : p \in scored} :
        \A p \in scored : IF maximizing THEN s >= p[2] ELSE s <= p[2]

\* The lowest move of a set of pairs <<move, score>> that has score s.
LowestWith(scored, s) ==
    CHOOSE m \in {p[1] : p \in {q \in scored : q[2] = s}} :
        \A p \in scored : p[2] = s => m <= p[1]

\* C3: on a board that is not terminal and with depth >= 1, best_move
\* returns the lowest unoccupied index whose child score is the maximum of
\* the child scores, and minimax at a minimizing node the lowest whose child
\* score is the minimum: a later move of equal score never replaces it.
C3_TieBreak ==
    (/\ pc = "returned"
     /\ call.fn \in {"minimax", "best_move"}
     /\ call.depth >= 1
     /\ Unoccupied(Ai, call.state) # {}
     /\ ~check_winner(call.state, "X", BoardSize, TO_WIN)
     /\ ~check_winner(call.state, "O", BoardSize, TO_WIN))
    => \A scored \in {ScoredMoves(call.state, call.depth, call.maximizing)} :
         \A best \in {BestOf(scored, call.maximizing)} :
            IF call.fn = "best_move"
            THEN ret = LowestWith(scored, best)
            ELSE ret.move = LowestWith(scored, best) /\ ret.score = best

\* C3's case: a minimizing node with two moves of the best score, the lower
\* one returned.
C3_Witness ==
    /\ pc = "returned"
    /\ call.fn = "minimax"
    /\ ~call.maximizing
    /\ call.depth = MaxDepth
    /\ ret.move # None
    /\ \E m \in Unoccupied(Ai, call.state) :
          /\ m > ret.move
          /\ minimax(apply_move(Ai, call.state, m, FALSE).new_state, call.depth - 1,
                     TRUE, BoundMethods(Ai)).score = ret.score

\* C4: on every board of a game of alternating moves that stops at the first
\* win, the two marks never both have a line, evaluate is exactly 100 when
\* the computer's mark has one and exactly -100 when the human's has.
C4_WinScores ==
    /\ ~(/\ check_winner(board, Ai.human, size, TO_WIN)
         /\ check_winner(board, Ai.computer, size, TO_WIN))
    /\ check_winner(board, Ai.computer, size, TO_WIN) => evaluate(Ai, board) = 100
    /\ check_winner(board, Ai.human, size, TO_WIN) => evaluate(Ai, board) = -100

\* C4's case: a game the human's mark has won.
C4_Witness ==
    /\ pc = "done"
    /\ result = "X"
    /\ check_winner(board, Ai.human, size, TO_WIN)
    /\ evaluate(Ai, board) = -100

\* C5: get_moves returns exactly the indices of the cells that hold neither
\* mark, ascending, whatever the maximizing flag; apply_move on such a move
\* returns a board that differs from its argument in that one cell, set to
\* the computer's mark when maximizing and to the human's otherwise, and
\* leaves its argument as it was.
C5_MovesAndFrame ==
    /\ (pc = "returned" /\ call.fn = "get_moves")
       => /\ \A j \in 1..Len(ret) : \A k \in 1..Len(ret) : j < k => ret[j] < ret[k]
          /\ {ret[j] : j \in 1..Len(ret)} = Unoccupied(Ai, call.state)
          /\ ret = get_moves(Ai, call.state, ~call.maximizing)
    /\ (pc = "returned" /\ call.fn = "apply_move")
       => /\ DOMAIN ret = DOMAIN call.state
          /\ \A i \in DOMAIN ret : i # call.move => ret[i] = call.state[i]
          /\ ret[call.move] = IF call.maximizing THEN "O" ELSE "X"
          /\ ret[call.move] # call.state[call.move]
          /\ board = call.state

\* C5's case: apply_move has placed the computer's mark on a board that
\* already held marks.
C5_Witness ==
    /\ pc = "returned"
    /\ call.fn = "apply_move"
    /\ call.maximizing
    /\ Marks(call.state, "X") = 2
    /\ Marks(ret, "O") = 2

\* C6: is_terminal holds exactly when get_moves is empty or a mark has a
\* line; on a full board nobody has won, is_terminal holds, get_moves is
\* empty and best_move returns None at every depth.
C6_TerminalIff ==
    /\ (pc = "returned" /\ call.fn = "is_terminal")
       => ret = (\/ get_moves(Ai, call.state, TRUE) = <<>>
                 \/ get_moves(Ai, call.state, FALSE) = <<>>
                 \/ check_winner(call.state, "X", BoardSize, TO_WIN)
                 \/ check_winner(call.state, "O", BoardSize, TO_WIN))
    /\ (/\ pc = "returned"
        /\ call.fn = "best_move"
        /\ Marks(call.state, "X") + Marks(call.state, "O") = BoardSize * BoardSize
        /\ ~check_winner(call.state, "X", BoardSize, TO_WIN)
        /\ ~check_winner(call.state, "O", BoardSize, TO_WIN))
       => /\ ret = None
          /\ is_terminal(Ai, call.state)
          /\ get_moves(Ai, call.state, TRUE) = <<>>

\* C6's case: best_move called with the highest depth on a full board nobody
\* has won.
C6_Witness ==
    /\ pc = "returned"
    /\ call.fn = "best_move"
    /\ call.depth = MaxDepth
    /\ Marks(call.state, "X") + Marks(call.state, "O") = BoardSize * BoardSize
    /\ ~check_winner(call.state, "X", BoardSize, TO_WIN)
    /\ ~check_winner(call.state, "O", BoardSize, TO_WIN)
    /\ ret = None

\* C7: minimax called with depth >= 1 on a state that is not terminal and
\* has no moves returns (evaluate(state), None), a finite score, for either
\* side.
C7_NoMovesGivesEvaluation ==
    (/\ pc = "returned"
     /\ call.fn = "minimax"
     /\ call.depth >= 1
     /\ ~call.cb.is_terminal[call.state]
     /\ call.cb.get_moves[<<call.state, call.maximizing>>] = <<>>)
    => /\ ret.score = call.cb.evaluate[call.state]
       /\ ret.score \notin {NegInf, PosInf}
       /\ ret.move = None

\* C8: the depth play_game passes to singleplayer governs the computer's
\* play: with depth 0 every computer move is get_computer_move's and
\* best_move is never called; with depth size*size the computer plays by
\* minimax to that depth.
C8_DepthGovernsPlay ==
    /\ (MenuDepth(difficulty, size) = 0 /\ chooser # "none")
       => chooser = "get_computer_move"
    /\ (MenuDepth(difficulty, size) = size * size /\ chooser # "none")
       => chooser = "best_move" /\ depth = size * size

\* Row r of b holds the computer's mark in exactly two cells and no mark in
\* the third.
OpenPair(self, b, r) ==
    /\ Cardinality({c \in 0..(self.size - 1) : b[r * self.size + c] = self.computer}) = 2
    /\ Cardinality({c \in 0..(self.size - 1) : b[r * self.size + c] = self.human}) = 0

\* C9 as stated: on a 3x3 board that is not terminal, where the computer
\* holds exactly two cells of a row whose third cell is unoccupied and every
\* human mark lies outside that row, evaluate is strictly positive.
C9_OpenPairPositive ==
    (/\ pc = "returned"
     /\ call.fn = "evaluate"
     /\ ~is_terminal(Ai, call.state)
     /\ \E r \in 0..(BoardSize - 1) : OpenPair(Ai, call.state, r))
    => ret > 0

\* C9 as amended: the same, on the boards that hold at most one human mark.
C9_OpenPairPositiveOneHumanMark ==
    (/\ pc = "returned"
     /\ call.fn = "evaluate"
     /\ ~is_terminal(Ai, call.state)
     /\ \E r \in 0..(BoardSize - 1) : OpenPair(Ai, call.state, r)
     /\ Marks(call.state, Ai.human) <= 1)
    => ret > 0

\* C9's case: evaluate on a board with the computer's pair in the top row
\* and one human mark in the centre.
C9_Witness ==
    /\ pc = "returned"
    /\ call.fn = "evaluate"
    /\ OpenPair(Ai, call.state, 0)
    /\ call.state[4] = "X"
    /\ Marks(call.state, "X") = 1
    /\ Marks(call.state, "O") = 2
    /\ ret > 0

\* C10: for every size N in 3..9 and run length K in 1..N, generate_lines
\* returns exactly 2*N*(N-K+1) + 2*(N-K+1)^2 lines, each a list of K board
\* indices.
C10_LineCount ==
    (pc = "returned" /\ call.fn = "generate_lines")
    => \A N \in {call.self.size} : \A K \in {call.self.to_win} :
          /\ Len(ret) = 2 * N * (N - K + 1) + 2 * (N - K + 1) * (N - K + 1)
          /\ \A j \in 1..Len(ret) :
                /\ Len(ret[j]) = K
                /\ \A i \in 1..K : ret[j][i] \in 0..(N * N - 1)

\* C10's case: the lines of the largest board with the game's run length.
C10_Witness ==
    /\ pc = "returned"
    /\ call.fn = "generate_lines"
    /\ call.self.size = MaxSize
    /\ call.self.to_win = TO_WIN
    /\ Len(ret) = 224

\* The number of writes to board so far: the loop variable counts the turns
\* that ran to their end, and a winning turn returns before the next begins.
MovesPlayed ==
    IF result \in {"human", "computer"} THEN turn + 1 ELSE turn

\* C11: in the single-player loop every move is written to a cell that held
\* no mark just before the write and no other cell changes, so the number
\* of marked cells is the number of moves played, every cell holds its label
\* or one of the two marks, and the human's marks are as many as the
\* computer's or one more.
C11_MovesFillUnoccupiedCells ==
    /\ [](/\ \A i \in DOMAIN board : board[i] \in {ToString(i + 1), "X", "O"}
          /\ Marks(board, "X") + Marks(board, "O") = MovesPlayed
          /\ Marks(board, "X") - Marks(board, "O") \in {0, 1})
    /\ [][\E i \in DOMAIN board :
            /\ board[i] = ToString(i + 1)
            /\ board'[i] \in {"X", "O"}
            /\ \A j \in DOMAIN board : j # i => board'[j] = board[j]]_vars

\* C11's case: a game played to a draw, the computer's four moves chosen by
\* best_move, all nine cells marked.
C11_Witness ==
    /\ pc = "done"
    /\ result = "draw"
    /\ turn = size * size
    /\ chooser = "best_move"
    /\ Marks(board, "X") = 5
    /\ Marks(board, "O") = 4

====
